---- MODULE Spec2Model ----
(***************************************************************************)
(* A model of the Quantpedia strategy screener (src/app.py): the catalog   *)
(* cache and its loader, the per-title enrichment memo, the query engine,  *)
(* the model configuration and the two-model summarization fan-out.        *)
(*                                                                         *)
(* Strings are sequences of one-character strings, so that replace(),      *)
(* lower(), strip() and quote() are computed and not assumed.              *)
(* Floats are integers (Sharpe ratios and drawdowns in whole units).       *)
(*                                                                         *)
(* A call is a sequence of steps of its thread, one for each access to the *)
(* file system, to the module's globals or to a table of lru_cache; the    *)
(* files, the documents and the other threads move between the steps.      *)
(***************************************************************************)
EXTENDS Integers, Sequences, FiniteSets, TLC

VARIABLES
    dirExists,        \* os.path.exists("metadata_files")
    mtime,            \* os.path.getmtime("metadata_files")
    files,            \* the *.json files of metadata_files, by name
    html_files,       \* the documents of html_files, by name
    strategy_cache,   \* _strategy_cache (line 79)
    last_load_time,   \* _last_load_time (line 80)
    memo,             \* the three lru_cache tables (lines 82, 104, 128)
    thr,              \* the request threads: the call, the statement, the locals
    written_by,       \* the thread that wrote the cache, and the timestamp
    groq_api_key,     \* whether GROQ_API_KEY is set (line 36)
    models_file,      \* the file 'models'
    MODEL_CONFIG,     \* MODEL_CONFIG (line 38)
    summ,             \* the summarize_strategy call in progress
    op                \* the last completed call: its name, arguments and result

(***************************************************************************)
(* Bounds of the model.                                                    *)
(***************************************************************************)
\* the directory's modification time runs over 1..MaxTime
MaxTime == 3
\* lru_cache(maxsize=1000), scaled to a universe of three titles
maxsize == 2

(***************************************************************************)
(* Strings.                                                                *)
(***************************************************************************)
RECURSIVE Flat(_)
Flat(ss) == IF ss = <<>> THEN <<>> ELSE Head(ss) \o Flat(Tail(ss))

\* str.replace(from, to) for a one-character `from`
Replace(s, from, to) ==
    Flat([i \in 1..Len(s) |-> IF s[i] = from THEN to ELSE <<s[i]>>])

LowerChar(c) ==
    CASE c = "A" -> "a"
      [] c = "B" -> "b"
      [] c = "M" -> "m"
      [] c = "V" -> "v"
      [] OTHER -> c

\* str.lower()
Lower(s) == [i \in 1..Len(s) |-> LowerChar(s[i])]

RECURSIVE RStrip(_, _)
\* str.rstrip(c)
RStrip(s, c) ==
    IF s # <<>> /\ s[Len(s)] = c THEN RStrip(SubSeq(s, 1, Len(s) - 1), c) ELSE s

RECURSIVE LStrip(_, _)
LStrip(s, c) == IF s # <<>> /\ s[1] = c THEN LStrip(Tail(s), c) ELSE s

\* str.strip(), whitespace being the blank
Strip(s) == LStrip(RStrip(s, " "), " ")

\* urllib.parse.quote: letters, digits and _ . - ~ / are kept, the rest is
\* percent-encoded
QuoteChar(c) ==
    CASE c = "&" -> <<"%", "2", "6">>
      [] c = " " -> <<"%", "2", "0">>
      [] c = "?" -> <<"%", "3", "F">>
      [] c = ":" -> <<"%", "3", "A">>
      [] c = "," -> <<"%", "2", "C">>
      [] OTHER -> <<c>>

Quote(s) == Flat([i \in 1..Len(s) |-> QuoteChar(s[i])])

\* a in b, for strings
IsSubstring(a, b) ==
    \E i \in 0..(Len(b) - Len(a)) : SubSeq(b, i + 1, i + Len(a)) = a

(***************************************************************************)
(* JSON values of a record file.  A field is absent, null or a value.      *)
(***************************************************************************)
Absent == "absent"
Null == "null"
Val == "val"

StrField(k, s) == [kind |-> k, str |-> s]
NumField(k, n) == [kind |-> k, num |-> n]
ListField(k, l) == [kind |-> k, items |-> l]
PMField(k, sh, dd) == [kind |-> k, sharpe_ratio |-> sh, max_drawdown |-> dd]
ImplField(k, tf) == [kind |-> k, trading_frequency |-> tf]

NoStr == StrField(Absent, <<>>)
NoNum == NumField(Absent, 0)

\* the titles of the catalog
TitleAB == <<"a", " ", "b">>
TitleAmp == <<"a", "&">>
TitleB == <<"B">>
Titles == {TitleAB, TitleAmp, TitleB}

\* the keys the memo tables are addressed with: strategy.get('title', '')
TitleKeys == {StrField(Val, t) : t \in Titles}

(***************************************************************************)
(* Auxiliary documents (html_files).                                       *)
(***************************************************************************)
\* a document: the end year of its backtest period (0: the marker is not in
\* the text), whether it has the keywords block, and the hrefs of the
\* keyword links of the block
Doc(e, y, d, h) == [exists |-> e, end_year |-> y, div |-> d, hrefs |-> h]
NoDoc == Doc(FALSE, 0, FALSE, <<>>)
Href(t, s) == [tagged |-> t, slug |-> s]

DocA ==
    Doc(TRUE, 2018, TRUE,
        << Href(TRUE, <<"M", "-", "a", "/">>), Href(FALSE, <<"v">>) >>)
DocB ==
    Doc(TRUE, 2020, TRUE,
        << Href(TRUE, <<"v">>), Href(TRUE, <<"b", "-", "a", "-", "/">>) >>)

\* get_html_filename, lines 87-91: the file names tried, in order
variations(title) ==
    << Replace(title, " ", <<"_">>),
       Quote(Replace(title, " ", <<"_">>)),
       Replace(Replace(Replace(Replace(Replace(title, " ", <<"_">>),
           "?", <<"%", "3", "F">>), ":", <<"%", "3", "A">>),
           "&", <<"%", "2", "6">>), ",", <<"%", "2", "C">>) >>

\* the names a lookup can try: those of the titles, and that of the empty
\* title of a record without one
HtmlNames == UNION {{variations(t)[i] : i \in 1..3} : t \in Titles \cup {<<>>}}

\* the result of get_html_filename: a path, or None
PathOf(n) == [found |-> TRUE, name |-> n]
NoPath == [found |-> FALSE, name |-> <<>>]

(***************************************************************************)
(* functools.lru_cache: a table of at most maxsize entries, least recently *)
(* used first.  A hit moves the entry to the end; a miss appends the       *)
(* computed entry and drops the head when the table is over its size.      *)
(***************************************************************************)
LruHas(c, k) == \E i \in 1..Len(c) : c[i].key = k
LruIdx(c, k) == CHOOSE i \in 1..Len(c) : c[i].key = k
LruVal(c, k) == c[LruIdx(c, k)].val
LruTouch(c, k) ==
    LET i == LruIdx(c, k)
    IN  SubSeq(c, 1, i - 1) \o SubSeq(c, i + 1, Len(c)) \o <<c[i]>>
LruPutNothing(c, k, v) == c
LruPut(c, k, v) ==
    LET c2 == Append(c, [key |-> k, val |-> v])
    IN  IF Len(c2) > maxsize THEN Tail(c2) ELSE c2

\* the record of the first result of every key (history, not program state)
FirstHas(f, k) == \E e \in f : e.key = k
FirstVal(f, k) == (CHOOSE e \in f : e.key = k).val
FirstNote(f, k, v) == IF FirstHas(f, k) THEN f ELSE f \cup {[key |-> k, val |-> v]}

EmptyMemo ==
    [html |-> <<>>, date |-> <<>>, kw |-> <<>>,
     first_html |-> {}, first_date |-> {}, first_kw |-> {}]

DocExists(n) == n \in DOMAIN html_files /\ html_files[n].exists

(***************************************************************************)
(* The categories of the keyword summaries, lines 512-520 and 574-582.     *)
(***************************************************************************)
\* a category and the words that put a keyword into it
Category(name, words) == [name |-> name, words |-> words]
categories ==
    <<Category("Trading Style",
        {<<"m", "o", "m", "e", "n", "t", "u", "m">>,
          <<"r", "e", "v", "e", "r", "s", "a", "l">>,
          <<"t", "r", "e", "n", "d", " ", "f", "o", "l", "l", "o", "w", "i", "n", "g">>,
          <<"m", "e", "a", "n", " ", "r", "e", "v", "e", "r", "s", "i", "o", "n">>,
          <<"a", "r", "b", "i", "t", "r", "a", "g", "e">>,
          <<"c", "a", "r", "r", "y">>,
          <<"v", "o", "l", "a", "t", "i", "l", "i", "t", "y">>,
          <<"p", "a", "i", "r", "s", " ", "t", "r", "a", "d", "i", "n", "g">>}),
      Category("Asset Class",
        {<<"s", "t", "o", "c", "k", "s">>,
          <<"b", "o", "n", "d", "s">>,
          <<"f", "o", "r", "e", "x">>,
          <<"c", "o", "m", "m", "o", "d", "i", "t", "i", "e", "s">>,
          <<"o", "p", "t", "i", "o", "n", "s">>,
          <<"f", "u", "t", "u", "r", "e", "s">>,
          <<"c", "r", "y", "p", "t", "o">>,
          <<"e", "t", "f">>}),
      Category("Factor Type",
        {<<"v", "a", "l", "u", "e">>,
          <<"s", "i", "z", "e">>,
          <<"q", "u", "a", "l", "i", "t", "y">>,
          <<"l", "o", "w", " ", "v", "o", "l", "a", "t", "i", "l", "i", "t", "y">>,
          <<"g", "r", "o", "w", "t", "h">>,
          <<"p", "r", "o", "f", "i", "t", "a", "b", "i", "l", "i", "t", "y">>,
          <<"l", "i", "q", "u", "i", "d", "i", "t", "y">>}),
      Category("Time Horizon",
        {<<"i", "n", "t", "r", "a", "d", "a", "y">>,
          <<"d", "a", "i", "l", "y">>,
          <<"w", "e", "e", "k", "l", "y">>,
          <<"m", "o", "n", "t", "h", "l", "y">>,
          <<"q", "u", "a", "r", "t", "e", "r", "l", "y">>,
          <<"y", "e", "a", "r", "l", "y">>}),
      Category("Market",
        {<<"e", "q", "u", "i", "t", "y">>,
          <<"f", "i", "x", "e", "d", " ", "i", "n", "c", "o", "m", "e">>,
          <<"c", "u", "r", "r", "e", "n", "c", "y">>,
          <<"c", "o", "m", "m", "o", "d", "i", "t", "y">>,
          <<"c", "r", "y", "p", "t", "o", "c", "u", "r", "r", "e", "n", "c", "y">>}),
      Category("Region",
        {<<"g", "l", "o", "b", "a", "l">>,
          <<"u", "s">>,
          <<"e", "u", "r", "o", "p", "e">>,
          <<"a", "s", "i", "a">>,
          <<"e", "m", "e", "r", "g", "i", "n", "g", " ", "m", "a", "r", "k", "e", "t", "s">>,
          <<"c", "h", "i", "n", "a">>,
          <<"j", "a", "p", "a", "n">>}),
      Category("Other", {}) >>

CategoryNames == {categories[i].name : i \in 1..Len(categories)}

\* lines 526-542 and 588-604: the first category one of whose words is in
\* the keyword, lowercased and with hyphens replaced by blanks; 'Other'
\* when there is none
category_of(keyword) ==
    IF \E i \in 1..Len(categories) : \E w \in categories[i].words :
          IsSubstring(w, Replace(Lower(keyword), "-", <<" ">>))
    THEN categories[CHOOSE i \in 1..Len(categories) :
            /\ \E w \in categories[i].words :
                  IsSubstring(w, Replace(Lower(keyword), "-", <<" ">>))
            /\ \A j \in 1..(i - 1) : \A w \in categories[j].words :
                  ~IsSubstring(w, Replace(Lower(keyword), "-", <<" ">>))].name
    ELSE "Other"

\* categorized_keywords before it is filled, lines 523 and 585
NoCats == [c \in CategoryNames |-> <<>>]

\* the wrapper stores the result of a miss unless the key was stored while
\* the wrapped function ran
LruStore(c, k, v) == IF LruHas(c, k) THEN c ELSE LruPut(c, k, v)

\* lines 115-123: the end year of the backtest period, 0 without the marker
date_of(d) == d.end_year

\* lines 147-149: the slug after 'strategy-tags/', without trailing
\* slashes, hyphens replaced by blanks, lowercased
normalize_slug(slug) == Lower(Replace(RStrip(slug, "/"), "-", <<" ">>))

RECURSIVE collect_keywords(_)
collect_keywords(hrefs) ==
    IF hrefs = <<>> THEN <<>>
    ELSE (IF Head(hrefs).tagged THEN <<normalize_slug(Head(hrefs).slug)>> ELSE <<>>)
         \o collect_keywords(Tail(hrefs))

\* lines 139-154: the tags of the document's tag block
keywords_of(d) == IF d.div THEN collect_keywords(d.hrefs) ELSE <<>>

(***************************************************************************)
(* Record files and the catalog.                                           *)
(***************************************************************************)
Rec(t, pm, impl, ac, d) ==
    [title |-> t, performance_metrics |-> pm, implementation |-> impl,
     asset_classes |-> ac, description |-> d]

\* a record with a title, a Sharpe ratio and nothing else
BaseRec(t, sh) ==
    Rec(StrField(Val, t), PMField(Val, NumField(Val, sh), NoNum),
        ImplField(Absent, NoStr), ListField(Absent, <<>>), NoStr)

\* a file of metadata_files: not there, unparseable, or a JSON object
File(k, r) == [kind |-> k, rec |-> r]
NoFile == File("none", BaseRec(<<>>, 0))
BadFile == File("bad", BaseRec(<<>>, 0))
JsonFile(r) == File("json", r)

F1 == "f1.json"
F2 == "f2.json"
F3 == "f3.json"
FileNames == {F1, F2, F3}
\* the files that are created, rewritten and removed while the program runs
DirFiles == {F1, F2}

\* strategy.get('title', ''), lines 180-181 and 311
TitleKey(rec) == IF rec.title.kind = Absent THEN StrField(Val, <<>>) ELSE rec.title

\* lines 178-181: the record with its filename, end_year and keywords
Strategy(r, f, y, k) == [rec |-> r, filename |-> f, end_year |-> y, keywords |-> k]

\* _strategy_cache: None, or a list
CacheNone == [isNone |-> TRUE, list |-> <<>>]
CacheOf(l) == [isNone |-> FALSE, list |-> l]

\* line 165
cache_hit_strict(force_reload, now) ==
    ~force_reload /\ ~strategy_cache.isNone /\ now < last_load_time
cache_hit_unforced(force_reload, now) ==
    ~strategy_cache.isNone /\ now <= last_load_time
cache_hit(force_reload, now) ==
    ~force_reload /\ ~strategy_cache.isNone /\ now <= last_load_time

FilenamesOf(l) == {l[i].filename : i \in 1..Len(l)}
JsonFiles == {f \in FileNames : files[f].kind = "json"}

\* the entries of metadata_files that match *.json
Entries == {f \in FileNames : files[f].kind # "none"}

\* the orders in which a directory can list the entries S: glob yields them
\* in the order of the file system, which is not sorted
Orders(S) ==
    {s \in [1..Cardinality(S) -> S] :
        \A i, j \in 1..Cardinality(S) : i # j => s[i] # s[j]}

(***************************************************************************)
(* The model configuration (file 'models') and the summarization call.     *)
(***************************************************************************)
\* an entry of the configuration: whether it is there, with its id and label
Entry(there, has_id, has_label, id, label) ==
    [there |-> there, has_id |-> has_id, has_label |-> has_label,
     id |-> id, label |-> label]
Config(p, s) == [primary |-> p, secondary |-> s]

\* lines 38-41
DefaultConfig ==
    Config(Entry(TRUE, TRUE, TRUE, "openai/gpt-oss-120b", "GPT-OSS 120B"),
           Entry(TRUE, TRUE, TRUE, "moonshotai/kimi-k2-instruct",
                 "Kimi K2 Instruct (1T)"))
CustomConfig ==
    Config(Entry(TRUE, TRUE, TRUE, "llama-3.3-70b", "Llama"),
           Entry(TRUE, TRUE, TRUE, "qwen3-32b", "Qwen"))
NoSecondary ==
    Config(Entry(TRUE, TRUE, TRUE, "llama-3.3-70b", "Llama"),
           Entry(FALSE, FALSE, FALSE, "", ""))
NoLabel ==
    Config(Entry(TRUE, TRUE, FALSE, "llama-3.3-70b", ""),
           Entry(TRUE, TRUE, TRUE, "qwen3-32b", "Qwen"))

\* the file 'models': not there, not JSON, or a JSON object
ModelsFile(k, d) == [kind |-> k, data |-> d]
NoModels == ModelsFile("none", DefaultConfig)
BadModels == ModelsFile("bad", DefaultConfig)
ModelsFiles ==
    {NoModels, BadModels}
        \cup {ModelsFile("json", d) :
                d \in {DefaultConfig, CustomConfig, NoSecondary, NoLabel}}

\* what a model call gives: a summary, its own error string, or, had it no
\* handler, an exception
Res(kind, by, model) == [kind |-> kind, by |-> by, model |-> model]
NoRes == Res("none", "", "")

\* a future of the executor: not submitted, queued, or done with its result
Future(st, res) == [state |-> st, res |-> res]
NoFuture == Future("none", NoRes)

\* html_content: None, or a string of tags and characters
Html(toks) == [isNone |-> FALSE, toks |-> toks]
NoHtml == [isNone |-> TRUE, toks |-> <<>>]

\* a call of summarize_strategy: where it is, its argument, its futures
Summ(pc, html, text, g, k) ==
    [pc |-> pc, html |-> html, text |-> text, gptoss |-> g, kimi |-> k,
     data |-> DefaultConfig]
SummIdle == Summ("idle", NoHtml, <<>>, NoFuture, NoFuture)

\* the query parameters of /api/strategies, lines 331-337
NumArg(g, v) == [given |-> g, v |-> v]
NoArg == NumArg(FALSE, 0)
Request(ms, md, tf, q, sb, ac, kw) ==
    [min_sharpe |-> ms, max_drawdown |-> md, trading_frequency |-> tf,
     search |-> q, sort_by |-> sb, asset_classes |-> ac, keywords |-> kw]
\* no parameter given: sort_by defaults to 'sharpe' (line 335)
NoRequest == Request(NoArg, NoArg, <<>>, <<>>, "sharpe", <<>>, <<>>)

\* the last completed call: its name, arguments and result.  While a call
\* is in progress, and before the first one, there is none.
OpNone ==
    [name |-> "none", force |-> FALSE, key |-> NoStr, ret |-> <<>>,
     fresh |-> {}, date |-> 0, kws |-> <<>>, path |-> NoPath,
     status |-> "", calls |-> 0, summary |-> <<>>, req |-> NoRequest,
     html |-> NoHtml, found |-> "", rebuilt |-> FALSE, cats |-> NoCats,
     config |-> DefaultConfig]

(***************************************************************************)
(* Request threads.  Flask serves each request on a thread of its own; a   *)
(* thread is inside one call, at one statement, with the call's locals.    *)
(* A step of a thread is one access to the file system, to the module's    *)
(* globals or to a table of lru_cache, with the computation on locals that *)
(* follows it.                                                             *)
(***************************************************************************)
Threads == {1, 2}

\* the result of the same query asked just before (history)
NoPrev == [same |-> FALSE, status |-> "", ret |-> <<>>]

ThreadIdle ==
    [pc |-> "idle", call |-> "", force |-> FALSE, req |-> NoRequest,
     name |-> <<>>,
     \* load_strategies: current_time, the listing of glob and the position
     \* in it, strategies, and the strategy of the file that is being read
     now |-> 0, listing |-> <<>>, idx |-> 0, strategies |-> <<>>,
     rec |-> BaseRec(<<>>, 0), end_year |-> 0,
     \* get_html_filename, get_date, get_keywords: the outermost function
     \* called, its caller, its argument, the variation tried, html_file and
     \* the result
     fn |-> "", ctx |-> "", key |-> NoStr, vi |-> 0, path |-> NoPath,
     date |-> 0, kws |-> <<>>,
     \* the endpoint: filtered_strategies, and the results of get_date for
     \* the elements that sorted() has computed the key of
     filtered |-> <<>>, dates |-> <<>>,
     \* load_models_config and get_models: data, what the call found, and
     \* the entry of the response that has been read
     data |-> DefaultConfig, found |-> "", primary |-> DefaultConfig.primary,
     \* history: the directory has not changed since the call began,
     \* whether the call has rebuilt the cache and the files it has put into
     \* it that it did not hold, the result of the same query just before
     quiet |-> TRUE, fresh |-> {}, rebuilt |-> FALSE, prev |-> NoPrev]

NoWriter == [cache |-> 0, time |-> 0]

dirVars == <<dirExists, mtime, files>>
cacheVars == <<strategy_cache, last_load_time>>
concVars == <<thr, written_by>>
summVars == <<groq_api_key, models_file, MODEL_CONFIG, summ>>
vars == <<dirExists, mtime, files, html_files, strategy_cache, last_load_time,
          memo, thr, written_by, groq_api_key, models_file, MODEL_CONFIG, summ,
          op>>

\* a step of thread p ends its call with the result o, or leaves it in t
Fin(o) == [done |-> TRUE, frame |-> ThreadIdle, op |-> o]
Go(t) == [done |-> FALSE, frame |-> t, op |-> OpNone]
Continue(p, r) ==
    /\ thr' = [thr EXCEPT ![p] = r.frame]
    /\ op' = IF r.done THEN r.op ELSE op

(***************************************************************************)
(* The query engine: the filter of get_strategies_endpoint and             *)
(* sort_strategies.  An exception raised while filtering or sorting leaves *)
(* the handler's try and becomes the error response of lines 415-419.      *)
(***************************************************************************)
\* ord(c)
Ord(c) ==
    CASE c = " " -> 32 [] c = "%" -> 37 [] c = "&" -> 38 [] c = "," -> 44
      [] c = "-" -> 45 [] c = "/" -> 47 [] c = "2" -> 50 [] c = "3" -> 51
      [] c = "6" -> 54 [] c = ":" -> 58 [] c = "?" -> 63 [] c = "A" -> 65
      [] c = "B" -> 66 [] c = "C" -> 67 [] c = "F" -> 70 [] c = "M" -> 77
      [] c = "V" -> 86 [] c = "_" -> 95 [] c = "a" -> 97 [] c = "b" -> 98
      [] c = "m" -> 109 [] c = "v" -> 118

\* a < b for tuples of numbers, as Python compares tuples and strings
LexLess(a, b) ==
    \/ \E i \in 1..Len(a) :
          /\ i <= Len(b) /\ a[i] < b[i]
          /\ \A j \in 1..(i - 1) : a[j] = b[j]
    \/ /\ Len(a) < Len(b)
       /\ \A j \in 1..Len(a) : a[j] = b[j]

Abs(n) == IF n < 0 THEN -n ELSE n

\* the value of an expression, or the exception it raised
Raised(v) == [err |-> TRUE, v |-> v]
Got(v) == [err |-> FALSE, v |-> v]

\* float(strategy.get('performance_metrics', {}).get(name, 0) or 0),
\* lines 302, 352, 355: null performance_metrics has no get()
metric(rec, name) ==
    LET pm == rec.performance_metrics IN
    IF pm.kind = Null THEN Raised(0)
    ELSE IF pm.kind = Absent THEN Got(0)
    ELSE IF pm[name].kind = Val THEN Got(pm[name].num) ELSE Got(0)

get_sharpe(rec) == metric(rec, "sharpe_ratio")

\* strategy.get(name, '').lower(), lines 307, 374, 401, 402
lower_of(field) ==
    IF field.kind = Null THEN Raised(<<>>)
    ELSE IF field.kind = Absent THEN Got(<<>>)
    ELSE Got(Lower(field.str))

\* a float argument is used when it is truthy, lines 352 and 355
truthy(arg) == arg.given /\ arg.v # 0

\* line 337
normalize_keywords_raw(kws) == kws
normalize_keywords(kws) == [i \in 1..Len(kws) |-> Lower(Replace(kws[i], "-", <<" ">>))]

\* line 373
strategy_keywords(kws) ==
    [i \in 1..Len(kws) |-> Strip(Lower(Replace(kws[i], "-", <<" ">>)))]

\* lines 364-367
asset_match_substring(asset_classes, assets) ==
    \E i \in 1..Len(asset_classes) : \E j \in 1..Len(assets) :
       IsSubstring(Lower(asset_classes[i]), Lower(assets[j]))
asset_match(asset_classes, assets) ==
    \E i \in 1..Len(asset_classes) : \E j \in 1..Len(assets) :
       Lower(asset_classes[i]) = Lower(assets[j])

\* lines 384-391
keyword_match(keywords, skws) ==
    \E i \in 1..Len(keywords) : \E j \in 1..Len(skws) :
       IsSubstring(keywords[i], skws[j]) \/ IsSubstring(skws[j], keywords[i])

\* lines 349-407 for one strategy: "keep", "drop", or "raise"
verdict(st, req) ==
    LET r == st.rec
        sh == get_sharpe(r)
        dd == metric(r, "max_drawdown")
        impl == r.implementation
        ac == r.asset_classes
        kws == normalize_keywords(req.keywords)
        title == lower_of(r.title)
        desc == lower_of(r.description)
        q == Lower(req.search)
    IN
    IF truthy(req.min_sharpe) /\ sh.err THEN "raise"
    ELSE IF truthy(req.min_sharpe) /\ sh.v < req.min_sharpe.v THEN "drop"
    ELSE IF truthy(req.max_drawdown) /\ dd.err THEN "raise"
    ELSE IF truthy(req.max_drawdown) /\ Abs(dd.v) > Abs(req.max_drawdown.v)
    THEN "drop"
    ELSE IF req.trading_frequency # <<>> /\ impl.kind = Null THEN "raise"
    ELSE IF /\ req.trading_frequency # <<>>
            /\ ~(/\ impl.kind = Val
                 /\ impl.trading_frequency.kind = Val
                 /\ impl.trading_frequency.str = req.trading_frequency)
    THEN "drop"
    ELSE IF req.asset_classes # <<>> /\ ac.kind = Null THEN "raise"
    ELSE IF req.asset_classes # <<>> /\ ~asset_match(req.asset_classes, ac.items)
    THEN "drop"
    ELSE IF kws # <<>> /\ title.err THEN "raise"
    ELSE IF kws # <<>> /\ ~keyword_match(kws, strategy_keywords(st.keywords))
    THEN "drop"
    ELSE IF q # <<>> /\ (title.err \/ desc.err) THEN "raise"
    ELSE IF q # <<>> /\ ~IsSubstring(q, title.v) /\ ~IsSubstring(q, desc.v)
    THEN "drop"
    ELSE "keep"

\* acc with the strategy st, whose verdict is v: an exception ends the loop
kept(acc, st, v) ==
    IF acc.err \/ v = "raise" THEN Raised(<<>>)
    ELSE IF v = "keep" THEN Got(Append(acc.v, st))
    ELSE acc

\* lines 346-407: the strategies kept, in the order of the cache
RECURSIVE filter_strategies(_, _, _)
filter_strategies(l, req, acc) ==
    IF l = <<>> THEN acc
    ELSE filter_strategies(Tail(l), req, kept(acc, Head(l), verdict(Head(l), req)))

Sorted(e, l) == [err |-> e, list |-> l]

\* lines 301-305
sharpe_key(sh) == Sorted(sh.err, <<-sh.v>>)
\* lines 306-307
title_key(t) == Sorted(t.err, [i \in 1..Len(t.v) |-> Ord(t.v[i])])
\* lines 312-314, date being what get_date returned at line 311
date_key(sh, date) == Sorted(sh.err, <<-date, -sh.v>>)

\* the sort key of one strategy, lines 301-314, as a tuple of numbers
sort_key(st, sort_field, date) ==
    IF sort_field = "sharpe" THEN sharpe_key(get_sharpe(st.rec))
    ELSE IF sort_field = "title" THEN title_key(lower_of(st.rec.title))
    ELSE date_key(get_sharpe(st.rec), date)

\* acc with the strategy st, whose key is k: an exception ends the sort
keyed(acc, st, k) ==
    IF acc.err THEN acc
    ELSE IF k.err THEN Sorted(TRUE, <<>>)
    ELSE Sorted(FALSE, Append(acc.list, [key |-> k.list, item |-> st]))

\* sorted() computes the key of every element, in order, before it sorts;
\* dates are the results of get_date, one for each element, when the sort
\* is by date
RECURSIVE sort_keys(_, _, _, _)
sort_keys(l, sort_field, dates, acc) ==
    IF l = <<>> THEN acc
    ELSE sort_keys(Tail(l), sort_field,
                   IF dates = <<>> THEN <<>> ELSE Tail(dates),
                   keyed(acc, Head(l),
                         sort_key(Head(l), sort_field,
                                  IF dates = <<>> THEN 0 ELSE Head(dates))))

\* sorted() is stable: an element goes before the first one with a greater key
RECURSIVE insert_sorted(_, _)
insert_sorted(l, x) ==
    IF l = <<>> THEN <<x>>
    ELSE IF LexLess(x.key, Head(l).key) THEN <<x>> \o l
    ELSE <<Head(l)>> \o insert_sorted(Tail(l), x)

RECURSIVE stable_sort(_, _)
stable_sort(keyed_items, acc) ==
    IF keyed_items = <<>> THEN acc
    ELSE stable_sort(Tail(keyed_items), insert_sorted(acc, Head(keyed_items)))

items_of(s) == [i \in 1..Len(s) |-> s[i].item]

by_key(k) == IF k.err THEN k ELSE Sorted(FALSE, items_of(stable_sort(k.list, <<>>)))

\* sort_strategies, lines 298-318
sort_strategies(l, sort_field, dates) ==
    IF sort_field \in {"sharpe", "title", "date"}
    THEN by_key(sort_keys(l, sort_field, dates, Sorted(FALSE, <<>>)))
    ELSE Sorted(FALSE, l)

\* lines 566-571: the keywords of all strategies, and the count of one
all_keywords(l) == Flat([i \in 1..Len(l) |-> l[i].keywords])
keyword_count(ks, k) == Cardinality({i \in 1..Len(ks) : ks[i] = k})

\* line 587: sorted by (-count, keyword)
count_key(ks, k) == <<-keyword_count(ks, k)>> \o [i \in 1..Len(k) |-> Ord(k[i])]
by_count(ks, D) ==
    CHOOSE q \in [1..Cardinality(D) -> D] :
       \A i, j \in 1..Cardinality(D) :
          i < j => LexLess(count_key(ks, q[i]), count_key(ks, q[j]))

\* line 587: the keywords with their counts, most frequent first
counted(ks) ==
    [i \in 1..Cardinality({ks[j] : j \in 1..Len(ks)}) |->
        [keyword |-> by_count(ks, {ks[j] : j \in 1..Len(ks)})[i],
         count |-> keyword_count(ks, by_count(ks, {ks[j] : j \in 1..Len(ks)})[i])]]

\* lines 585-606: every category with its keywords, in the order of line 587
counts_by_category(ks) ==
    [c \in CategoryNames |->
        SelectSeq(counted(ks), LAMBDA e : category_of(e.keyword) = c)]

\* lines 502-510 of get_keywords_summary: every keyword of every strategy
\* with strategy['title'], in the order of the loop
occurrences(l) ==
    Flat([i \in 1..Len(l) |->
            [j \in 1..Len(l[i].keywords) |->
                [keyword |-> l[i].keywords[j], title |-> l[i].rec.title]]])

\* the keys of keyword_counts, in the order they were inserted
RECURSIVE insertion_order(_, _)
insertion_order(occ, acc) ==
    IF occ = <<>> THEN acc
    ELSE insertion_order(Tail(occ),
                         IF \E i \in 1..Len(acc) : acc[i] = Head(occ).keyword
                         THEN acc ELSE Append(acc, Head(occ).keyword))

\* lines 505-510: keyword_counts[k] and keyword_strategies[k]
summary_entry(occ, k) ==
    [keyword |-> k,
     count |-> Cardinality({i \in 1..Len(occ) : occ[i].keyword = k}),
     strategies |->
        [i \in 1..Cardinality({j \in 1..Len(occ) : occ[j].keyword = k}) |->
            SelectSeq(occ, LAMBDA o : o.keyword = k)[i].title]]

\* lines 523-545: every category with the keywords put into it
summary_by_category(occ) ==
    [c \in CategoryNames |->
        SelectSeq([i \in 1..Len(insertion_order(occ, <<>>)) |->
                      summary_entry(occ, insertion_order(occ, <<>>)[i])],
                  LAMBDA e : category_of(e.keyword) = c)]

\* get_keywords_summary on the strategies l, lines 496-545: strategy['title']
\* raises KeyError for a strategy with keywords and no title
keywords_summary(l) ==
    IF \E i \in 1..Len(occurrences(l)) : occurrences(l)[i].title.kind = Absent
    THEN Raised(NoCats)
    ELSE Got(summary_by_category(occurrences(l)))

(***************************************************************************)
(* What a call does with what load_strategies and the enrichment functions *)
(* return to it.                                                           *)
(***************************************************************************)
LoadOp(t, status, l) ==
    [OpNone EXCEPT !.name = "load", !.force = t.force, !.status = status,
                   !.ret = l, !.fresh = t.fresh, !.rebuilt = t.rebuilt]
QueryOp(req, status, l) ==
    [OpNone EXCEPT !.name = "query", !.req = req, !.status = status, !.ret = l]
CountsOp(status, ks, cats) ==
    [OpNone EXCEPT !.name = "keywords", !.status = status, !.kws = ks,
                   !.cats = cats]
SummaryOp(s) ==
    [OpNone EXCEPT !.name = "summary",
                   !.status = IF s.err THEN "error" ELSE "ok", !.cats = s.v]
ViewOp(n, status) ==
    [OpNone EXCEPT !.name = "view", !.status = status, !.key = StrField(Val, n)]
EnrichOp(t, v) ==
    IF t.fn = "get_html_filename"
    THEN [OpNone EXCEPT !.name = "get_html_filename", !.key = t.key, !.path = v]
    ELSE IF t.fn = "get_date"
    THEN [OpNone EXCEPT !.name = "get_date", !.key = t.key, !.date = v]
    ELSE [OpNone EXCEPT !.name = "get_keywords", !.key = t.key, !.kws = v]

\* the call of an enrichment function: fn with the argument key, from ctx
Enter(t, fn, ctx, key) ==
    [t EXCEPT !.pc = fn, !.fn = fn, !.ctx = ctx, !.key = key, !.vi = 0,
              !.path = NoPath, !.date = 0, !.kws = <<>>]
Leave(t) ==
    [t EXCEPT !.fn = "", !.ctx = "", !.key = NoStr, !.vi = 0, !.path = NoPath,
              !.date = 0, !.kws = <<>>]

\* lines 409-413, or the handler of an exception, lines 415-419
query_sorted(req, s) == Fin(QueryOp(req, IF s.err THEN "error" ELSE "ok", s.list))

\* lines 310-316: sorted() has the date of element idx, takes its Sharpe
\* ratio and goes on to the next element
sort_next(t, date) ==
    IF get_sharpe(t.filtered[t.idx].rec).err
    THEN Fin(QueryOp(t.req, "error", <<>>))
    ELSE IF t.idx = Len(t.filtered)
    THEN query_sorted(t.req,
                      sort_strategies(t.filtered, "date", Append(t.dates, date)))
    ELSE Go(Enter([Leave(t) EXCEPT !.idx = t.idx + 1,
                                   !.dates = Append(t.dates, date)],
                  "get_date", "l311", TitleKey(t.filtered[t.idx + 1].rec)))

\* lines 346-410 on the strategies f kept by the filter: the sort by date
\* calls get_date for every element, the other sorts read the records only
query_filtered(t, f) ==
    IF f.err THEN Fin(QueryOp(t.req, "error", <<>>))
    ELSE IF t.req.sort_by = "date" /\ f.v # <<>>
    THEN Go(Enter([t EXCEPT !.filtered = f.v, !.idx = 1, !.dates = <<>>,
                            !.strategies = <<>>, !.listing = <<>>],
                  "get_date", "l311", TitleKey(f.v[1].rec)))
    ELSE query_sorted(t.req, sort_strategies(f.v, t.req.sort_by, <<>>))

\* load_strategies returns l to its caller: lines 343, 472, 496, 563
load_returned(t, l) ==
    IF t.call = "load" THEN Fin(LoadOp(t, "ok", l))
    ELSE IF t.call = "query"
    THEN query_filtered(t, filter_strategies(l, t.req, Got(<<>>)))
    ELSE IF t.call = "keywords"
    THEN Fin(CountsOp("ok", counted(all_keywords(l)),
                      counts_by_category(all_keywords(l))))
    ELSE IF t.call = "summary" THEN Fin(SummaryOp(keywords_summary(l)))
    ELSE Fin(ViewOp(t.name, "ok"))

\* load_strategies raises: the handlers of lines 415 and 487 answer 500, as
\* Flask does for get_keywords_summary and get_keywords_summary_counts,
\* which have no handler
load_raised(t) ==
    IF t.call = "load" THEN Fin(LoadOp(t, "raised", <<>>))
    ELSE IF t.call = "query" THEN Fin(QueryOp(t.req, "error", <<>>))
    ELSE IF t.call = "keywords" THEN Fin(CountsOp("error", <<>>, NoCats))
    ELSE IF t.call = "summary" THEN Fin(SummaryOp(Raised(NoCats)))
    ELSE Fin(ViewOp(t.name, "error"))

\* lines 175-185: the loop goes on to the next entry of the listing, or ends
next_file(t) ==
    Go(IF t.idx >= Len(t.listing)
       THEN [t EXCEPT !.pc = "l188", !.idx = 0, !.listing = <<>>,
                      !.rec = BaseRec(<<>>, 0), !.end_year = 0]
       ELSE [t EXCEPT !.pc = "l177", !.idx = t.idx + 1,
                      !.rec = BaseRec(<<>>, 0), !.end_year = 0])

\* an enrichment function returns v to its caller: line 180, line 181,
\* line 311, or the caller of the function itself
enrich_return(t, v) ==
    IF t.ctx = "l180"
    THEN Go(Enter([t EXCEPT !.end_year = v], "get_keywords", "l181", t.key))
    ELSE IF t.ctx = "l181"
    THEN next_file(Leave([t EXCEPT !.strategies =
                             Append(t.strategies,
                                    Strategy(t.rec, t.listing[t.idx], t.end_year, v))]))
    ELSE IF t.ctx = "l311" THEN sort_next(t, v)
    ELSE Fin(EnrichOp(t, v))

\* get_html_filename returns path: to its caller, or into get_date and
\* get_keywords, lines 108-112 and 132-136
after_html(t, path) ==
    IF t.fn = "get_html_filename" THEN enrich_return(t, path)
    ELSE IF ~path.found THEN Go([t EXCEPT !.pc = "store", !.path = path])
    ELSE Go([t EXCEPT !.pc = "open", !.path = path])

(***************************************************************************)
(* The steps of get_html_filename, get_date and get_keywords.              *)
(***************************************************************************)
\* lines 104-105: the call of get_date goes through the table of lru_cache
l104_get_date(p) ==
    /\ thr[p].pc = "get_date"
    /\ IF LruHas(memo.date, thr[p].key)
       THEN /\ memo' = [memo EXCEPT !.date = LruTouch(memo.date, thr[p].key)]
            /\ Continue(p, enrich_return(thr[p], LruVal(memo.date, thr[p].key)))
       ELSE /\ memo' = memo
            /\ Continue(p, Go([thr[p] EXCEPT !.pc = "get_html_filename"]))
    /\ UNCHANGED <<dirVars, html_files, cacheVars, written_by, summVars>>

\* lines 128-129
l128_get_keywords(p) ==
    /\ thr[p].pc = "get_keywords"
    /\ IF LruHas(memo.kw, thr[p].key)
       THEN /\ memo' = [memo EXCEPT !.kw = LruTouch(memo.kw, thr[p].key)]
            /\ Continue(p, enrich_return(thr[p], LruVal(memo.kw, thr[p].key)))
       ELSE /\ memo' = memo
            /\ Continue(p, Go([thr[p] EXCEPT !.pc = "get_html_filename"]))
    /\ UNCHANGED <<dirVars, html_files, cacheVars, written_by, summVars>>

\* lines 82-91: the call of get_html_filename goes through its table; on a
\* miss the variations are built, which raises for a title that is no string
l82_get_html_filename(p) ==
    /\ thr[p].pc = "get_html_filename"
    /\ IF LruHas(memo.html, thr[p].key)
       THEN /\ memo' = [memo EXCEPT !.html = LruTouch(memo.html, thr[p].key)]
            /\ Continue(p, after_html(thr[p], LruVal(memo.html, thr[p].key)))
       ELSE /\ memo' = memo
            /\ Continue(p, Go(IF thr[p].key.kind # Val
                              THEN [thr[p] EXCEPT !.pc = "html_store"]
                              ELSE [thr[p] EXCEPT !.pc = "l95", !.vi = 1]))
    /\ UNCHANGED <<dirVars, html_files, cacheVars, written_by, summVars>>

\* lines 93-99: os.path.exists of one variation
l95_exists(p) ==
    /\ thr[p].pc = "l95"
    /\ Continue(p, Go(
          IF DocExists(variations(thr[p].key.str)[thr[p].vi])
          THEN [thr[p] EXCEPT !.pc = "html_store", !.vi = 0,
                   !.path = PathOf(variations(thr[p].key.str)[thr[p].vi])]
          ELSE IF thr[p].vi < 3 THEN [thr[p] EXCEPT !.vi = thr[p].vi + 1]
          ELSE [thr[p] EXCEPT !.pc = "html_store", !.vi = 0]))
    /\ UNCHANGED <<dirVars, html_files, cacheVars, memo, written_by, summVars>>

\* get_html_filename returns: the wrapper stores its result
l82_store(p) ==
    /\ thr[p].pc = "html_store"
    /\ memo' = [memo EXCEPT
                  !.html = LruStore(memo.html, thr[p].key, thr[p].path),
                  !.first_html = FirstNote(memo.first_html, thr[p].key, thr[p].path)]
    /\ Continue(p, after_html(thr[p], thr[p].path))
    /\ UNCHANGED <<dirVars, html_files, cacheVars, written_by, summVars>>

\* lines 112-123 and 136-154: the document is opened and read; open raises
\* when it is not there, and the handler returns 0 or []
l112_open(p) ==
    /\ thr[p].pc = "open"
    /\ Continue(p, Go(
          IF ~DocExists(thr[p].path.name) THEN [thr[p] EXCEPT !.pc = "store"]
          ELSE IF thr[p].fn = "get_date"
          THEN [thr[p] EXCEPT !.pc = "store",
                              !.date = date_of(html_files[thr[p].path.name])]
          ELSE [thr[p] EXCEPT !.pc = "store",
                              !.kws = keywords_of(html_files[thr[p].path.name])]))
    /\ UNCHANGED <<dirVars, html_files, cacheVars, memo, written_by, summVars>>

\* get_date or get_keywords returns: the wrapper stores its result
l104_store(p) ==
    /\ thr[p].pc = "store"
    /\ IF thr[p].fn = "get_date"
       THEN /\ memo' = [memo EXCEPT
                          !.date = LruStore(memo.date, thr[p].key, thr[p].date),
                          !.first_date = FirstNote(memo.first_date, thr[p].key,
                                                   thr[p].date)]
            /\ Continue(p, enrich_return(thr[p], thr[p].date))
       ELSE /\ memo' = [memo EXCEPT
                          !.kw = LruStore(memo.kw, thr[p].key, thr[p].kws),
                          !.first_kw = FirstNote(memo.first_kw, thr[p].key,
                                                 thr[p].kws)]
            /\ Continue(p, enrich_return(thr[p], thr[p].kws))
    /\ UNCHANGED <<dirVars, html_files, cacheVars, written_by, summVars>>

EnrichStep(p) ==
    \/ l104_get_date(p)
    \/ l128_get_keywords(p)
    \/ l82_get_html_filename(p)
    \/ l95_exists(p)
    \/ l82_store(p)
    \/ l112_open(p)
    \/ l104_store(p)

(***************************************************************************)
(* The steps of load_strategies.  The module holds no lock: between two    *)
(* steps the file system can change and another thread can run.            *)
(***************************************************************************)
\* line 162, os.path.exists("metadata_files")
l162_exists(p) ==
    /\ thr[p].pc = "l162"
    /\ Continue(p, Go(IF dirExists THEN [thr[p] EXCEPT !.pc = "l162m"]
                      ELSE [thr[p] EXCEPT !.pc = "l165", !.now = 0]))
    /\ UNCHANGED <<dirVars, html_files, cacheVars, memo, written_by, summVars>>

\* line 162, os.path.getmtime("metadata_files"): FileNotFoundError when the
\* directory is no longer there
l162_getmtime(p) ==
    /\ thr[p].pc = "l162m"
    /\ Continue(p, IF dirExists THEN Go([thr[p] EXCEPT !.pc = "l165", !.now = mtime])
                   ELSE load_raised(thr[p]))
    /\ UNCHANGED <<dirVars, html_files, cacheVars, memo, written_by, summVars>>

\* lines 165-166
l165(p) ==
    /\ thr[p].pc = "l165"
    /\ Continue(p, IF cache_hit(thr[p].force, thr[p].now)
                   THEN load_returned(thr[p], strategy_cache.list)
                   ELSE Go([thr[p] EXCEPT !.pc = "l171"]))
    /\ memo' = memo
    /\ UNCHANGED <<dirVars, html_files, cacheVars, written_by, summVars>>

\* lines 168-173
l171(p) ==
    /\ thr[p].pc = "l171"
    /\ Continue(p, IF ~dirExists THEN load_returned(thr[p], <<>>)
                   ELSE Go([thr[p] EXCEPT !.pc = "l175"]))
    /\ memo' = memo
    /\ UNCHANGED <<dirVars, html_files, cacheVars, written_by, summVars>>

\* line 175, glob: Path.is_dir; what is no directory has no entries
l175_is_dir(p) ==
    /\ thr[p].pc = "l175"
    /\ Continue(p, Go(IF dirExists THEN [thr[p] EXCEPT !.pc = "l175s"]
                      ELSE [thr[p] EXCEPT !.pc = "l188"]))
    /\ UNCHANGED <<dirVars, html_files, cacheVars, memo, written_by, summVars>>

\* line 175, glob: os.scandir lists the entries at once, in the order of
\* the file system; FileNotFoundError when the directory is no longer there
l175_scandir(p, listing) ==
    /\ thr[p].pc = "l175s"
    /\ Continue(p, IF ~dirExists THEN load_raised(thr[p])
                   ELSE IF listing = <<>> THEN Go([thr[p] EXCEPT !.pc = "l188"])
                   ELSE Go([thr[p] EXCEPT !.pc = "l177", !.listing = listing,
                                          !.idx = 1]))
    /\ UNCHANGED <<dirVars, html_files, cacheVars, memo, written_by, summVars>>

\* lines 176-179: the entry is opened and parsed; a file that is gone or
\* does not parse is skipped by the handler of line 183
l177_open(p) ==
    /\ thr[p].pc = "l177"
    /\ Continue(p,
          IF files[thr[p].listing[thr[p].idx]].kind # "json"
          THEN next_file(thr[p])
          ELSE Go(Enter([thr[p] EXCEPT
                           !.rec = files[thr[p].listing[thr[p].idx]].rec],
                        "get_date", "l180",
                        TitleKey(files[thr[p].listing[thr[p].idx]].rec))))
    /\ UNCHANGED <<dirVars, html_files, cacheVars, memo, written_by, summVars>>

\* line 188
l188(p) ==
    /\ thr[p].pc = "l188"
    /\ strategy_cache' = CacheOf(thr[p].strategies)
    /\ written_by' = [written_by EXCEPT !.cache = p]
    /\ thr' = [thr EXCEPT ![p].pc = "l189", ![p].rebuilt = TRUE,
                          ![p].fresh = FilenamesOf(thr[p].strategies)
                                          \ FilenamesOf(strategy_cache.list)]
    /\ UNCHANGED <<dirVars, html_files, last_load_time, memo, summVars, op>>

\* lines 189-190
l189(p) ==
    /\ thr[p].pc = "l189"
    /\ last_load_time' = thr[p].now
    /\ written_by' = [written_by EXCEPT !.time = p]
    /\ Continue(p, load_returned(thr[p], thr[p].strategies))
    /\ UNCHANGED <<dirVars, html_files, strategy_cache, memo, summVars>>

\* get_html_content, lines 196-202: the name of the document, a trailing
\* '.json' cut off and blanks replaced by underscores
html_name(n) ==
    Replace(IF Len(n) >= 5 /\ SubSeq(n, Len(n) - 4, Len(n)) = <<".", "j", "s", "o", "n">>
            THEN SubSeq(n, 1, Len(n) - 5) ELSE n,
            " ", <<"_">>)

\* line 215, content.strip() is empty: the documents of the model are made
\* of the backtest period, the keywords block and links, and one with none
\* of them has no text
IsBlank(d) == d.end_year = 0 /\ ~d.div /\ d.hrefs = <<>>

\* line 466, get_html_content: html_path.exists(), line 209; without the
\* document the content is None and line 469 answers 404
l209_exists(p) ==
    /\ thr[p].pc = "l209"
    /\ Continue(p, IF DocExists(html_name(thr[p].name))
                   THEN Go([thr[p] EXCEPT !.pc = "l213"])
                   ELSE Fin(ViewOp(thr[p].name, "404")))
    /\ UNCHANGED <<dirVars, html_files, cacheVars, memo, written_by, summVars>>

\* get_html_content, lines 213-224: the document is opened and read; the
\* content is None when open raises and when the text is blank
l213_open(p) ==
    /\ thr[p].pc = "l213"
    /\ Continue(p, IF /\ DocExists(html_name(thr[p].name))
                      /\ ~IsBlank(html_files[html_name(thr[p].name)])
                   THEN Go([thr[p] EXCEPT !.pc = "l162"])
                   ELSE Fin(ViewOp(thr[p].name, "404")))
    /\ UNCHANGED <<dirVars, html_files, cacheVars, memo, written_by, summVars>>

LoadStep(p) ==
    \/ l162_exists(p)
    \/ l162_getmtime(p)
    \/ l165(p)
    \/ l171(p)
    \/ l175_is_dir(p)
    \/ \E listing \in Orders(Entries) : l175_scandir(p, listing)
    \/ l177_open(p)
    \/ l188(p)
    \/ l189(p)

(***************************************************************************)
(* The calls.                                                              *)
(***************************************************************************)
Called(p, t) ==
    /\ thr[p].pc = "idle"
    /\ thr' = [thr EXCEPT ![p] = t]
    /\ op' = OpNone
    /\ UNCHANGED <<dirVars, html_files, cacheVars, memo, written_by, summVars>>

\* load_strategies, lines 159-190
load_strategies(p, force_reload) ==
    Called(p, [ThreadIdle EXCEPT !.pc = "l162", !.call = "load",
                 !.force = force_reload])

\* get_strategies_endpoint, lines 327-419
get_strategies_endpoint(p, req) ==
    Called(p, [ThreadIdle EXCEPT !.pc = "l162", !.call = "query", !.req = req,
                 !.prev = IF op.name = "query" /\ op.req = req
                          THEN [same |-> TRUE, status |-> op.status, ret |-> op.ret]
                          ELSE NoPrev])

\* get_keywords_summary_counts, lines 560-606
get_keywords_summary_counts(p) ==
    Called(p, [ThreadIdle EXCEPT !.pc = "l162", !.call = "keywords"])

\* get_keywords_summary, lines 493-545
get_keywords_summary(p) ==
    Called(p, [ThreadIdle EXCEPT !.pc = "l162", !.call = "summary"])

\* view_strategy, lines 461-491: get_html_content of line 466 first, then
\* load_strategies of line 472.  The record files of the model are named
\* f1.json, f2.json and f3.json and the names viewed are those of documents,
\* so the loop of lines 475-478 finds no strategy_info
view_strategy(p, n) ==
    Called(p, [ThreadIdle EXCEPT !.pc = "l209", !.call = "view", !.name = n])

call_get_html_filename(p, key) ==
    Called(p, Enter([ThreadIdle EXCEPT !.call = "enrich"],
                    "get_html_filename", "call", key))
call_get_date(p, key) ==
    Called(p, Enter([ThreadIdle EXCEPT !.call = "enrich"], "get_date", "call", key))
call_get_keywords(p, key) ==
    Called(p, Enter([ThreadIdle EXCEPT !.call = "enrich"], "get_keywords", "call", key))

(***************************************************************************)
(* The data directory changes under the program.                           *)
(***************************************************************************)
\* what a file of the directory can hold
DirContents(f) ==
    IF f = F1 THEN {BadFile, JsonFile(BaseRec(TitleAB, 1))}
    ELSE {JsonFile(BaseRec(TitleAmp, 2))}

\* a directory entry is created or removed: the directory's modification
\* time advances, or stays within the granularity of the file system's clock
Stamp == {mtime} \cup {t \in {mtime + 1} : t <= MaxTime}

\* the calls in progress have seen the directory change
Disturbed ==
    [p \in Threads |->
        IF thr[p].pc = "idle" THEN thr[p] ELSE [thr[p] EXCEPT !.quiet = FALSE]]

AddFile(f, c, t) ==
    /\ dirExists /\ files[f].kind = "none"
    /\ files' = [files EXCEPT ![f] = c]
    /\ mtime' = t
    /\ thr' = Disturbed
    /\ op' = IF op.name = "none" THEN op ELSE [OpNone EXCEPT !.name = "add"]
    /\ UNCHANGED <<written_by, summVars, dirExists, html_files, cacheVars, memo>>

RemoveFile(f, t) ==
    /\ dirExists /\ files[f].kind # "none"
    /\ files' = [files EXCEPT ![f] = NoFile]
    /\ mtime' = t
    /\ thr' = Disturbed
    /\ op' = IF op.name = "none" THEN op ELSE [OpNone EXCEPT !.name = "remove"]
    /\ UNCHANGED <<written_by, summVars, dirExists, html_files, cacheVars, memo>>

\* a file is rewritten in place: the directory's modification time stays
EditFile(f, c) ==
    /\ dirExists /\ files[f].kind # "none" /\ files[f] # c
    /\ files' = [files EXCEPT ![f] = c]
    /\ thr' = Disturbed
    /\ op' = IF op.name = "none" THEN op ELSE [OpNone EXCEPT !.name = "edit"]
    /\ UNCHANGED <<written_by, summVars, dirExists, mtime, html_files, cacheVars, memo>>

RemoveDir ==
    /\ dirExists
    /\ dirExists' = FALSE
    /\ files' = [f \in FileNames |-> NoFile]
    /\ thr' = Disturbed
    /\ op' = IF op.name = "none" THEN op ELSE [OpNone EXCEPT !.name = "rmdir"]
    /\ UNCHANGED <<written_by, summVars, mtime, html_files, cacheVars, memo>>

CreateDir ==
    /\ ~dirExists /\ mtime < MaxTime
    /\ dirExists' = TRUE
    /\ mtime' = mtime + 1
    /\ thr' = Disturbed
    /\ op' = IF op.name = "none" THEN op ELSE [OpNone EXCEPT !.name = "mkdir"]
    /\ UNCHANGED <<written_by, summVars, files, html_files, cacheVars, memo>>

DocsInit ==
    [n \in HtmlNames |->
        IF n = <<"a", "_", "b">> THEN DocA
        ELSE IF n = <<"a", "%", "2", "6">> THEN DocB
        ELSE NoDoc]

\* the parts of the state a specification does not exercise stay as they are
\* at start
InitRest ==
    /\ thr = [p \in Threads |-> ThreadIdle]
    /\ written_by = NoWriter
    /\ groq_api_key = TRUE
    /\ models_file = NoModels
    /\ MODEL_CONFIG = DefaultConfig
    /\ summ = SummIdle

Init ==
    /\ dirExists = TRUE
    /\ mtime = 1
    /\ files = [f \in FileNames |-> NoFile]
    /\ html_files = DocsInit
    /\ strategy_cache = CacheNone
    /\ last_load_time = 0
    /\ memo = EmptyMemo
    /\ op = OpNone
    /\ InitRest

\* one request at a time
Load == \E force_reload \in BOOLEAN : load_strategies(1, force_reload)

Step == LoadStep(1) \/ EnrichStep(1)

DirChange ==
    \/ \E f \in DirFiles, t \in Stamp : \E c \in DirContents(f) : AddFile(f, c, t)
    \/ \E f \in DirFiles, t \in Stamp : RemoveFile(f, t)
    \/ \E f \in DirFiles : \E c \in DirContents(f) : EditFile(f, c)
    \/ RemoveDir
    \/ CreateDir

Next == Load \/ Step \/ DirChange

Spec == Init /\ [][Next]_vars

(***************************************************************************)
(* The enrichment functions called one at a time, while the auxiliary      *)
(* documents change and the catalog is reloaded.                           *)
(***************************************************************************)
\* the documents that are written, replaced or deleted while the program runs
ChangingDocs == {<<"a", "_", "b">>}
DocContents == {NoDoc, DocA}

SetDoc(n, d) ==
    /\ html_files[n] # d
    /\ html_files' = [html_files EXCEPT ![n] = d]
    /\ op' = IF op.name = "none" THEN op ELSE [OpNone EXCEPT !.name = "setdoc"]
    /\ UNCHANGED <<concVars, summVars, dirVars, cacheVars, memo>>

InitMemo ==
    /\ dirExists = TRUE
    /\ mtime = 1
    /\ files = [f \in FileNames |->
                  IF f = F1 THEN JsonFile(BaseRec(TitleAB, 1))
                  ELSE IF f = F2 THEN JsonFile(BaseRec(TitleAmp, 2))
                  ELSE NoFile]
    /\ html_files = DocsInit
    /\ strategy_cache = CacheNone
    /\ last_load_time = 0
    /\ memo = EmptyMemo
    /\ op = OpNone
    /\ InitRest

\* get_date is asked for every title, one more than its table holds; the
\* other two functions for the title whose document changes
Enrich ==
    \/ call_get_html_filename(1, StrField(Val, TitleAB))
    \/ \E key \in TitleKeys : call_get_date(1, key)
    \/ call_get_keywords(1, StrField(Val, TitleAB))

DocChange == \E n \in ChangingDocs, d \in DocContents : SetDoc(n, d)

NextMemo == Enrich \/ load_strategies(1, TRUE) \/ Step \/ DocChange

SpecMemo == InitMemo /\ [][NextMemo]_vars

(***************************************************************************)
(* load_strategies on concurrent request threads: SpecConc.                *)
(***************************************************************************)
ThreadStep ==
    \/ \E p \in Threads, force_reload \in BOOLEAN : load_strategies(p, force_reload)
    \/ \E p \in Threads : LoadStep(p)
    \/ \E p \in Threads : EnrichStep(p)

\* one record file is written and removed, and the directory is removed,
\* under the threads; every change of its entries advances its modification
\* time
Later == {t \in {mtime + 1} : t <= MaxTime}
TheRecord == JsonFile(BaseRec(TitleAB, 1))

DirChangeConc ==
    \/ \E t \in Later : AddFile(F1, TheRecord, t)
    \/ \E t \in Later : RemoveFile(F1, t)
    \/ RemoveDir

NextConc == ThreadStep \/ DirChangeConc

SpecConc == Init /\ [][NextConc]_vars

(***************************************************************************)
(* The catalog cache: claims C1, C2 and C4, under Spec.  The calls come    *)
(* one at a time; the directory changes between them and while they run.   *)
(***************************************************************************)
\* l is what a scan of the directory as it is yields: one strategy for each
\* file that parses, with that file's record
Rescanned(l) ==
    /\ Len(l) = Cardinality(JsonFiles)
    /\ FilenamesOf(l) = JsonFiles
    /\ \A i \in 1..Len(l) : files[l[i].filename] = JsonFile(l[i].rec)

\* the step ends a load_strategies call
Returns == thr[1].pc # "idle" /\ op'.name = "load"

\* the step is line 165 of a load that is not forced, and finds a populated
\* cache whose timestamp is at least the modification time T that line 162
\* has read
Coherent ==
    /\ thr[1].pc = "l165" /\ thr[1].call = "load" /\ thr'[1].pc # "l165"
    /\ ~thr[1].force /\ ~strategy_cache.isNone /\ last_load_time >= thr[1].now

\* C1: a load that is not forced and finds a cache whose timestamp is at
\* least the directory's modification time T returns the cached sequence and
\* writes nothing; every other load goes on to scan, and where the
\* directory exists, and is not changed while the call runs, the call
\* replaces the cached sequence by a scan of the directory and the
\* timestamp by T; a call that gets to line 189 has replaced the cached
\* sequence by what it returns, and the timestamp by the T it has read.
C1_CacheContract ==
    [][ /\ Coherent =>
              /\ Returns /\ op'.status = "ok"
              /\ op'.ret = strategy_cache.list
              /\ ~op'.rebuilt
              /\ UNCHANGED <<strategy_cache, last_load_time, memo>>
        /\ (thr[1].pc = "l165" /\ thr[1].call = "load" /\ ~Coherent) =>
              (~Returns /\ UNCHANGED <<strategy_cache, last_load_time>>)
        /\ (Returns /\ thr[1].pc # "l165" /\ dirExists /\ thr[1].quiet) =>
              /\ op'.status = "ok" /\ op'.rebuilt
              /\ ~strategy_cache'.isNone
              /\ Rescanned(strategy_cache'.list)
              /\ last_load_time' = mtime /\ thr[1].now = mtime
              /\ op'.ret = strategy_cache'.list
        /\ (Returns /\ thr[1].pc = "l189") =>
              /\ op'.status = "ok" /\ op'.rebuilt
              /\ last_load_time' = thr[1].now
              /\ op'.ret = strategy_cache.list /\ UNCHANGED strategy_cache ]_vars

\* a load that was not forced returned the cache as it was, although the
\* directory no longer holds what the cache holds
C1_Witness ==
    /\ op.name = "load" /\ ~op.force /\ ~op.rebuilt /\ dirExists
    /\ last_load_time >= mtime
    /\ op.ret = strategy_cache.list /\ op.ret # <<>>
    /\ ~Rescanned(op.ret)

\* C2: a forced load of a directory that is not changed while the call runs
\* returns every record file of the directory, those the cache did not hold
\* among them, and leaves them in the cache; a load that is not forced, made
\* with a populated cache while the directory's modification time is the
\* cached timestamp, returns none of the record files the cache does not
\* hold.
C2_ForcedReloadShowsNewFile ==
    [][ (Returns /\ dirExists /\ thr[1].quiet) =>
          /\ op'.force =>
                /\ JsonFiles \subseteq FilenamesOf(op'.ret)
                /\ JsonFiles \subseteq FilenamesOf(strategy_cache'.list)
          /\ (~op'.force /\ ~strategy_cache.isNone /\ mtime = last_load_time) =>
                (JsonFiles \ FilenamesOf(strategy_cache.list))
                    \cap FilenamesOf(op'.ret) = {} ]_vars

\* a forced load of a populated cache returned a file the cache did not hold
C2_Witness ==
    /\ op.name = "load" /\ op.force /\ dirExists
    /\ op.fresh # {} /\ op.fresh # FilenamesOf(op.ret)
    /\ op.fresh \subseteq JsonFiles
    /\ op.fresh \subseteq FilenamesOf(strategy_cache.list)

\* C4: a load that ends while the directory does not exist has not raised,
\* returns the empty sequence and leaves the cache and its timestamp as they
\* were.
C4_MissingDirEmpty ==
    [][ (Returns /\ ~dirExists) =>
          /\ op'.status = "ok"
          /\ op'.ret = <<>>
          /\ ~op'.rebuilt
          /\ UNCHANGED <<strategy_cache, last_load_time>> ]_vars

\* what holds of the code: a load that finds no directory at line 162 and,
\* when it gets there, none at line 171 does not raise, leaves the cache and
\* its timestamp as they were, and returns the cached sequence when it is
\* not forced and the cache is populated, the empty sequence otherwise
C4_MissingDirKeepsCache ==
    [][ (Returns /\ thr[1].pc \in {"l165", "l171"} /\ thr[1].now = 0) =>
          /\ op'.status = "ok"
          /\ ~op'.rebuilt
          /\ UNCHANGED <<strategy_cache, last_load_time>>
          /\ op'.ret = IF ~op'.force /\ ~strategy_cache.isNone
                       THEN strategy_cache.list ELSE <<>> ]_vars

\* a load raised: the directory went between the two calls of line 162, or
\* between the two of glob
C4_Raised == op.name = "load" /\ op.status = "raised"

(***************************************************************************)
(* The enrichment memo: claim C5, under SpecMemo.                          *)
(***************************************************************************)
Asked(f) == {e.key : e \in f}

\* the last call returned what the first call for its title returned
SameAsFirst ==
    /\ op.name = "get_html_filename" => op.path = FirstVal(memo.first_html, op.key)
    /\ op.name = "get_date" => op.date = FirstVal(memo.first_date, op.key)
    /\ op.name = "get_keywords" => op.kws = FirstVal(memo.first_kw, op.key)
    /\ op.name = "load" =>
          \A i \in 1..Len(op.ret) :
             /\ op.ret[i].end_year =
                   FirstVal(memo.first_date, TitleKey(op.ret[i].rec))
             /\ op.ret[i].keywords =
                   FirstVal(memo.first_kw, TitleKey(op.ret[i].rec))

\* C5 as claimed: every call of get_html_filename, get_date and get_keywords,
\* made directly or by a reload, returns what the first call for the same
\* title returned.
C5_NeverInvalidated == SameAsFirst

\* C5 as amended: it does while at most maxsize distinct titles have been
\* passed to the function.
C5_StableWithinCapacity ==
    /\ (op.name = "get_html_filename" /\ Cardinality(Asked(memo.first_html)) <= maxsize)
          => op.path = FirstVal(memo.first_html, op.key)
    /\ (op.name = "get_date" /\ Cardinality(Asked(memo.first_date)) <= maxsize)
          => op.date = FirstVal(memo.first_date, op.key)
    /\ (op.name = "get_keywords" /\ Cardinality(Asked(memo.first_kw)) <= maxsize)
          => op.kws = FirstVal(memo.first_kw, op.key)
    /\ (op.name = "load" /\ Cardinality(Asked(memo.first_date)) <= maxsize
                         /\ Cardinality(Asked(memo.first_kw)) <= maxsize)
          => \A i \in 1..Len(op.ret) :
                /\ op.ret[i].end_year =
                      FirstVal(memo.first_date, TitleKey(op.ret[i].rec))
                /\ op.ret[i].keywords =
                      FirstVal(memo.first_kw, TitleKey(op.ret[i].rec))

\* get_date returned the memoized year of a title whose document has been
\* deleted since: computed now, the result would be 0
C5_Witness ==
    /\ op.name = "get_date"
    /\ Cardinality(Asked(memo.first_date)) <= maxsize
    /\ op.date = FirstVal(memo.first_date, op.key)
    /\ op.date # 0
    /\ \A i \in 1..3 : ~DocExists(variations(op.key.str)[i])

(***************************************************************************)
(* Concurrent rebuilds: claim C3, under SpecConc.                          *)
(***************************************************************************)
AllIdle == \A p \in Threads : thr[p].pc = "idle"

\* whenever no rebuild is in progress, the cached sequence and the stored
\* timestamp were written by the same rebuild
SameRebuild == AllIdle => written_by.cache = written_by.time

\* whenever no rebuild is in progress and the stored timestamp says the
\* cache is coherent, the cache holds the files a scan of the directory
\* yields: no sequence scanned before the directory reached the stored
\* timestamp is served as coherent
CoherentCacheIsCurrent ==
    (AllIdle /\ dirExists /\ ~strategy_cache.isNone /\ last_load_time >= mtime)
        => FilenamesOf(strategy_cache.list) = JsonFiles

\* C3: concurrent rebuilds do not interleave their writes: whenever no
\* rebuild is in progress, the cached sequence and the stored timestamp were
\* written by the same rebuild, so that no load returns as coherent a
\* sequence scanned earlier than the timestamp stored with it.
C3_NoInterleavedWrites == SameRebuild /\ CoherentCacheIsCurrent

(***************************************************************************)
(* Queries over every catalog of two record files: SpecQuery.              *)
(***************************************************************************)
Base == BaseRec(TitleAB, 1)
S(x) == <<x>>

QueryRecs ==
    {Base}
    \cup {[Base EXCEPT !.title = t] :
            t \in {NoStr, StrField(Null, <<>>), StrField(Val, TitleAmp),
                   StrField(Val, TitleB)}}
    \cup {[Base EXCEPT !.performance_metrics = pm] :
            pm \in {PMField(Absent, NoNum, NoNum), PMField(Null, NoNum, NoNum)}
                   \cup {PMField(Val, sh, NoNum) :
                           sh \in {NoNum, NumField(Null, 0), NumField(Val, -1),
                                   NumField(Val, 0), NumField(Val, 2)}}
                   \cup {PMField(Val, NumField(Val, 1), dd) :
                           dd \in {NumField(Null, 0), NumField(Val, -2),
                                   NumField(Val, 1)}}}
    \cup {[Base EXCEPT !.implementation = i] :
            i \in {ImplField(Null, NoStr), ImplField(Val, NoStr),
                   ImplField(Val, StrField(Val, S("m")))}}
    \cup {[Base EXCEPT !.asset_classes = a] :
            a \in {ListField(Null, <<>>), ListField(Val, <<>>),
                   ListField(Val, << <<"A", "b">>, S("v") >>),
                   ListField(Val, << S("b") >>)}}
    \cup {[Base EXCEPT !.description = d] :
            d \in {StrField(Null, <<>>), StrField(Val, <<"V", " ", "m">>)}}

QueryContents == {NoFile, BadFile} \cup {JsonFile(r) : r \in QueryRecs}

\* the second file of the catalog
SecondContents ==
    {NoFile, BadFile, JsonFile(BaseRec(TitleAmp, 2)), JsonFile(BaseRec(TitleB, 1)),
     JsonFile([BaseRec(TitleAmp, -1) EXCEPT
                 !.asset_classes = ListField(Val, << S("b"), <<"a", "b">> >>)])}

Filters ==
    {NoRequest}
    \cup {[NoRequest EXCEPT !.min_sharpe = NumArg(TRUE, v)] : v \in {-1, 0, 1, 2}}
    \cup {[NoRequest EXCEPT !.max_drawdown = NumArg(TRUE, v)] : v \in {-1, 0, 2}}
    \cup {[NoRequest EXCEPT !.trading_frequency = S("m")]}
    \cup {[NoRequest EXCEPT !.asset_classes = a] :
            a \in {<< <<"a", "B">> >>, << S("a") >>, << S("m"), S("V") >>}}
    \cup {[NoRequest EXCEPT !.keywords = k] :
            k \in {<< <<"M", "-", "a">> >>, << S("v") >>, << S("m") >>,
                   << <<"a", "-">> >>}}
    \cup {[NoRequest EXCEPT !.search = q] : q \in {S("B"), S("v")}}

SortFields == {"sharpe", "title", "date", "name"}

\* every filter with the default sort and with a sort field that is not
\* known, and every sort field without a filter
Requests ==
    {[f EXCEPT !.sort_by = sb] : f \in Filters, sb \in {"sharpe", "name"}}
        \cup {[NoRequest EXCEPT !.sort_by = sb] : sb \in SortFields}

InitQuery ==
    /\ dirExists = TRUE
    /\ mtime = 1
    /\ \E c1 \in QueryContents, c2 \in SecondContents :
          files = [f \in FileNames |->
                     IF f = F1 THEN c1
                     ELSE IF f = F2 THEN c2 ELSE NoFile]
    /\ html_files = DocsInit
    /\ strategy_cache = CacheNone
    /\ last_load_time = 0
    /\ memo = EmptyMemo
    /\ op = OpNone
    /\ InitRest

\* the directory can be removed while a query runs
NextQuery ==
    \/ \E req \in Requests : get_strategies_endpoint(1, req)
    \/ Step
    \/ RemoveDir

SpecQuery == InitQuery /\ [][NextQuery]_vars

(***************************************************************************)
(* The query engine: claims C6, C9 and C10, under SpecQuery.               *)
(***************************************************************************)
\* the Sharpe ratio of a record, absent or null read as 0
SharpeOrZero(rec) ==
    IF /\ rec.performance_metrics.kind = Val
       /\ rec.performance_metrics.sharpe_ratio.kind = Val
    THEN rec.performance_metrics.sharpe_ratio.num
    ELSE 0

Returned(st) == \E j \in 1..Len(op.ret) : op.ret[j] = st
Cached == {strategy_cache.list[i] : i \in 1..Len(strategy_cache.list)}

\* the request gives no criterion but, possibly, the named one
Only(req, name) ==
    /\ name # "min_sharpe" => ~req.min_sharpe.given
    /\ ~req.max_drawdown.given
    /\ req.trading_frequency = <<>>
    /\ name # "asset_classes" => req.asset_classes = <<>>
    /\ name # "keywords" => req.keywords = <<>>
    /\ req.search = <<>>

\* C6: whatever the record files of the directory hold (unparseable, or
\* records with fields absent or null) and whatever the request, the
\* strategies query returns a result and not an error.
C6_QueryNeverFails == (op.name = "query" /\ dirExists) => op.status = "ok"

\* C9: when min_sharpe is supplied, every entity returned has a Sharpe ratio
\* (absent or null read as 0) of at least min_sharpe, and with no other
\* criterion every entity that has is returned.
C9_MinSharpeThreshold ==
    (op.name = "query" /\ op.status = "ok" /\ op.req.min_sharpe.given) =>
       /\ \A j \in 1..Len(op.ret) :
             SharpeOrZero(op.ret[j].rec) >= op.req.min_sharpe.v
       /\ Only(op.req, "min_sharpe") =>
             \A st \in Cached :
                SharpeOrZero(st.rec) >= op.req.min_sharpe.v => Returned(st)

\* some supplied class is, ignoring case, an element of the record's list
ClassMatches(rec, classes) ==
    /\ rec.asset_classes.kind = Val
    /\ \E i \in 1..Len(classes) : \E j \in 1..Len(rec.asset_classes.items) :
          Lower(classes[i]) = Lower(rec.asset_classes.items[j])

HasNull(rec) ==
    \/ rec.title.kind = Null
    \/ rec.performance_metrics.kind = Null
    \/ rec.implementation.kind = Null
    \/ rec.asset_classes.kind = Null
    \/ rec.description.kind = Null

\* C10: with asset classes supplied and no other criterion, an entity is
\* returned exactly when some supplied class equals, ignoring case, some
\* element of its asset_classes list; an entity without the attribute is not
\* returned, and is no cause of an error: a query fails only on a record
\* with a null field, or when the directory is removed while it loads.
C10_AssetClassFilter ==
    (op.name = "query" /\ op.req.asset_classes # <<>>
        /\ Only(op.req, "asset_classes")) =>
       /\ op.status = "ok" =>
             \A st \in Cached :
                Returned(st) <=> ClassMatches(st.rec, op.req.asset_classes)
       /\ op.status = "error" =>
             ((\E st \in Cached : HasNull(st.rec)) \/ ~dirExists)

\* a query by asset class returned a strategy whose class differs in case
\* from the class supplied, and left out one without the attribute and one
\* of which the class supplied is only a part
C10_Witness ==
    /\ op.name = "query" /\ op.status = "ok"
    /\ op.req.asset_classes = << <<"a", "B">> >>
    /\ \E st \in Cached : Returned(st) /\ <<"a", "B">> \notin
                             {st.rec.asset_classes.items[j] :
                                j \in 1..Len(st.rec.asset_classes.items)}
    /\ \E st \in Cached : ~Returned(st) /\ st.rec.asset_classes.kind = Absent

(***************************************************************************)
(* The keyword filter: claim C11, under SpecQuery.                         *)
(***************************************************************************)
\* hyphens replaced by blanks, lowercased
Norm(s) == Lower(Replace(s, "-", <<" ">>))

Within(a, b) == IsSubstring(a, b) \/ IsSubstring(b, a)

\* C11 as claimed: with keywords supplied and no other criterion, an entity
\* is returned exactly when some supplied keyword and some keyword of the
\* entity, both with hyphens replaced by blanks and lowercased, are one a
\* substring of the other.
C11_KeywordFilterSameNorm ==
    (op.name = "query" /\ op.status = "ok" /\ op.req.keywords # <<>>
        /\ Only(op.req, "keywords")) =>
       \A st \in Cached :
          Returned(st) <=>
             \E i \in 1..Len(op.req.keywords) : \E j \in 1..Len(st.keywords) :
                Within(Norm(op.req.keywords[i]), Norm(st.keywords[j]))

\* C11 as amended: the keyword of the entity is, besides, stripped of the
\* blanks at its ends; an entity without keywords is not returned.
C11_KeywordFilter ==
    (op.name = "query" /\ op.status = "ok" /\ op.req.keywords # <<>>
        /\ Only(op.req, "keywords")) =>
       \A st \in Cached :
          Returned(st) <=>
             \E i \in 1..Len(op.req.keywords) : \E j \in 1..Len(st.keywords) :
                Within(Norm(op.req.keywords[i]), Strip(Norm(st.keywords[j])))

\* a query by the keyword 'M-a' returned a strategy tagged 'm a' and left
\* out one without keywords
C11_Witness ==
    /\ op.name = "query" /\ op.status = "ok"
    /\ op.req.keywords = << <<"M", "-", "a">> >>
    /\ \E st \in Cached : Returned(st) /\ <<"m", " ", "a">> \in
                             {st.keywords[j] : j \in 1..Len(st.keywords)}
    /\ \E st \in Cached : ~Returned(st) /\ st.keywords = <<>>

(***************************************************************************)
(* The model configuration and summarize_strategy: SpecSumm.  The file     *)
(* 'models' is rewritten while the program runs; /api/models and a         *)
(* summarization are served at the same time, by different threads.        *)
(***************************************************************************)
\* lines 59-60
valid_config(d) ==
    /\ d.primary.there /\ d.primary.has_id /\ d.primary.has_label
    /\ d.secondary.there /\ d.secondary.has_id /\ d.secondary.has_label

\* what load_models_config finds when it opens and parses the file, lines
\* 56-68: open raises when the file is gone and json.load when it is not
\* JSON, and the handler of line 67 takes both
found_models ==
    IF models_file.kind \in {"none", "bad"} THEN "unparseable"
    ELSE IF valid_config(models_file.data) THEN "valid"
    ELSE "invalid"

\* MODEL_CONFIG.get(name, {}).get("id", default), lines 233 and 251
model_id(entry, default) == IF entry.there /\ entry.has_id THEN entry.id ELSE default

\* summarize_strategy_gptoss, lines 244-261: the summary of the backend, or
\* the error string of the handler at line 259
summarize_strategy_gptoss_unhandled(backend_ok) ==
    IF groq_api_key /\ backend_ok
    THEN Res("summary", "gpt-oss", model_id(MODEL_CONFIG.primary, "openai/gpt-oss-120b"))
    ELSE Res("raise", "gpt-oss", "")
summarize_strategy_gptoss(backend_ok) ==
    IF groq_api_key /\ backend_ok
    THEN Res("summary", "gpt-oss", model_id(MODEL_CONFIG.primary, "openai/gpt-oss-120b"))
    ELSE Res("error", "gpt-oss", "")

\* summarize_strategy_kimi, lines 226-242
summarize_strategy_kimi(backend_ok) ==
    IF groq_api_key /\ backend_ok
    THEN Res("summary", "kimi",
             model_id(MODEL_CONFIG.secondary, "moonshotai/kimi-k2-instruct"))
    ELSE Res("error", "kimi", "")

\* BeautifulSoup(html_content).get_text(), lines 272-273: the tags go
IsTag(t) == t \in {"<p>", "</p>"}
get_text(toks) == SelectSeq(toks, LAMBDA t : ~IsTag(t))

HtmlInputs ==
    {NoHtml, Html(<<>>), Html(<<"<p>", "</p>">>), Html(<<"<p>", " ", "</p>">>),
     Html(<<"<p>", "x", "</p>">>), Html(<<" ", "x", " ">>)}

\* the file 'models' is written or deleted
WriteModels(c) ==
    /\ models_file # c
    /\ models_file' = c
    /\ UNCHANGED <<dirVars, html_files, cacheVars, memo, concVars,
                   groq_api_key, MODEL_CONFIG, summ, op>>

\* get_models, lines 547-558: load_models_config, then the response
get_models(p) == Called(p, [ThreadIdle EXCEPT !.pc = "l55", !.call = "models"])

\* load_models_config has ended in get_models: line 553 is next
config_found(t, found) == Go([t EXCEPT !.pc = "l553", !.found = found])

\* line 55, cfg_path.exists()
l55_exists(p) ==
    /\ thr[p].pc = "l55"
    /\ Continue(p, IF models_file.kind # "none" THEN Go([thr[p] EXCEPT !.pc = "l56"])
                   ELSE config_found(thr[p], "missing"))
    /\ UNCHANGED <<dirVars, html_files, cacheVars, memo, written_by, summVars>>

\* lines 56-60: the file is opened, parsed and validated
l56_open(p) ==
    /\ thr[p].pc = "l56"
    /\ Continue(p, IF found_models = "valid"
                   THEN Go([thr[p] EXCEPT !.pc = "l61", !.data = models_file.data])
                   ELSE config_found(thr[p], found_models))
    /\ UNCHANGED <<dirVars, html_files, cacheVars, memo, written_by, summVars>>

\* line 61, MODEL_CONFIG = data
l61(p) ==
    /\ thr[p].pc = "l61"
    /\ MODEL_CONFIG' = thr[p].data
    /\ Continue(p, config_found(thr[p], "valid"))
    /\ UNCHANGED <<dirVars, html_files, cacheVars, memo, written_by,
                   groq_api_key, models_file, summ>>

\* line 553, MODEL_CONFIG.get("primary", {})
l553(p) ==
    /\ thr[p].pc = "l553"
    /\ Continue(p, Go([thr[p] EXCEPT !.pc = "l554", !.primary = MODEL_CONFIG.primary]))
    /\ UNCHANGED <<dirVars, html_files, cacheVars, memo, written_by, summVars>>

\* lines 554-555, MODEL_CONFIG.get("secondary", {}), and the response
l554(p) ==
    /\ thr[p].pc = "l554"
    /\ Continue(p, Fin([OpNone EXCEPT
                          !.name = "get_models", !.found = thr[p].found,
                          !.config = Config(thr[p].primary, MODEL_CONFIG.secondary)]))
    /\ UNCHANGED <<dirVars, html_files, cacheVars, memo, written_by, summVars>>

ModelsStep(p) == l55_exists(p) \/ l56_open(p) \/ l61(p) \/ l553(p) \/ l554(p)

\* summarize_strategy returns, lines 269, 276, 288-293 and 295-296
SummReturn(status, summary) ==
    [OpNone EXCEPT !.name = "summarize", !.html = summ.html, !.status = status,
                   !.summary = summary,
                   !.calls = Cardinality({f \in {"gptoss", "kimi"} :
                                            summ[f].state # "none"})]
SummError == SummReturn("error", <<Res("error", "summarize_strategy", "")>>)

\* summarize_strategy is called, line 263
summarize_strategy(html) ==
    /\ summ.pc = "idle"
    /\ summ' = [SummIdle EXCEPT !.pc = "l55", !.html = html]
    /\ op' = OpNone
    /\ UNCHANGED <<dirVars, html_files, cacheVars, memo, concVars,
                   groq_api_key, models_file, MODEL_CONFIG>>

\* load_models_config has ended in summarize_strategy, line 267
ConfigOp(found) == [OpNone EXCEPT !.name = "load_models_config", !.found = found]

\* line 267, load_models_config: cfg_path.exists() of line 55
s_l55 ==
    /\ summ.pc = "l55"
    /\ IF models_file.kind # "none"
       THEN summ' = [summ EXCEPT !.pc = "l56"] /\ UNCHANGED op
       ELSE summ' = [summ EXCEPT !.pc = "l268"] /\ op' = ConfigOp("missing")
    /\ UNCHANGED <<dirVars, html_files, cacheVars, memo, concVars,
                   groq_api_key, models_file, MODEL_CONFIG>>

\* line 267, load_models_config: lines 56-60
s_l56 ==
    /\ summ.pc = "l56"
    /\ IF found_models = "valid"
       THEN summ' = [summ EXCEPT !.pc = "l61", !.data = models_file.data]
            /\ UNCHANGED op
       ELSE summ' = [summ EXCEPT !.pc = "l268"] /\ op' = ConfigOp(found_models)
    /\ UNCHANGED <<dirVars, html_files, cacheVars, memo, concVars,
                   groq_api_key, models_file, MODEL_CONFIG>>

\* line 267, load_models_config: line 61
s_l61 ==
    /\ summ.pc = "l61"
    /\ MODEL_CONFIG' = summ.data
    /\ summ' = [summ EXCEPT !.pc = "l268", !.data = DefaultConfig]
    /\ op' = ConfigOp("valid")
    /\ UNCHANGED <<dirVars, html_files, cacheVars, memo, concVars,
                   groq_api_key, models_file>>

\* lines 268-282: the two early returns, or both calls submitted
s_l268 ==
    /\ summ.pc = "l268"
    /\ IF summ.html.isNone \/ summ.html.toks = <<>>
          \/ Strip(get_text(summ.html.toks)) = <<>>
       THEN /\ summ' = SummIdle
            /\ op' = SummError
       ELSE /\ summ' = [summ EXCEPT !.pc = "l285",
                                    !.text = get_text(summ.html.toks),
                                    !.gptoss = Future("queued", NoRes),
                                    !.kimi = Future("queued", NoRes)]
            /\ UNCHANGED op
    /\ UNCHANGED <<dirVars, html_files, cacheVars, memo, concVars,
                   groq_api_key, models_file, MODEL_CONFIG>>

\* a worker of the executor runs summarize_strategy_gptoss
gptoss_run(backend_ok) ==
    /\ summ.gptoss.state = "queued"
    /\ summ' = [summ EXCEPT
                  !.gptoss = Future("done", summarize_strategy_gptoss(backend_ok))]
    /\ UNCHANGED <<dirVars, html_files, cacheVars, memo, concVars,
                   groq_api_key, models_file, MODEL_CONFIG, op>>

\* a worker of the executor runs summarize_strategy_kimi
kimi_run(backend_ok) ==
    /\ summ.kimi.state = "queued"
    /\ summ' = [summ EXCEPT
                  !.kimi = Future("done", summarize_strategy_kimi(backend_ok))]
    /\ UNCHANGED <<dirVars, html_files, cacheVars, memo, concVars,
                   groq_api_key, models_file, MODEL_CONFIG, op>>

\* line 285, gptoss_future.result(): an exception of the call is raised
\* again here, and the executor is left when both calls have ended
s_l285 ==
    /\ summ.pc = "l285"
    /\ summ.gptoss.state = "done"
    /\ IF summ.gptoss.res.kind = "raise"
       THEN /\ summ.kimi.state = "done"
            /\ summ' = SummIdle
            /\ op' = SummError
       ELSE /\ summ' = [summ EXCEPT !.pc = "l286"]
            /\ UNCHANGED op
    /\ UNCHANGED <<dirVars, html_files, cacheVars, memo, concVars,
                   groq_api_key, models_file, MODEL_CONFIG>>

\* lines 286-293
s_l286 ==
    /\ summ.pc = "l286"
    /\ summ.kimi.state = "done"
    /\ summ' = SummIdle
    /\ op' = IF summ.kimi.res.kind = "raise" THEN SummError
             ELSE SummReturn("ok", <<summ.gptoss.res, summ.kimi.res>>)
    /\ UNCHANGED <<dirVars, html_files, cacheVars, memo, concVars,
                   groq_api_key, models_file, MODEL_CONFIG>>

InitSumm ==
    /\ dirExists = TRUE
    /\ mtime = 1
    /\ files = [f \in FileNames |-> NoFile]
    /\ html_files = DocsInit
    /\ strategy_cache = CacheNone
    /\ last_load_time = 0
    /\ memo = EmptyMemo
    /\ thr = [p \in Threads |-> ThreadIdle]
    /\ written_by = NoWriter
    /\ groq_api_key \in BOOLEAN
    /\ models_file \in ModelsFiles
    \* line 71: the configuration is loaded once at startup
    /\ MODEL_CONFIG = IF models_file.kind = "json" /\ valid_config(models_file.data)
                      THEN models_file.data ELSE DefaultConfig
    /\ summ = SummIdle
    /\ op = OpNone

Summarize ==
    \/ \E html \in HtmlInputs : summarize_strategy(html)
    \/ s_l55
    \/ s_l56
    \/ s_l61
    \/ s_l268
    \/ s_l285
    \/ s_l286

Worker == \E backend_ok \in BOOLEAN : gptoss_run(backend_ok) \/ kimi_run(backend_ok)

ConfigChange == \E c \in ModelsFiles : WriteModels(c)

NextSumm == Summarize \/ Worker \/ ConfigChange \/ get_models(1) \/ ModelsStep(1)

SpecSumm == InitSumm /\ [][NextSumm]_vars

\* the document has a character that is neither markup nor blank
HasText(html) ==
    /\ ~html.isNone
    /\ \E i \in 1..Len(html.toks) : ~IsTag(html.toks[i]) /\ html.toks[i] # " "

OwnResult(res, by) == res.by = by /\ res.kind \in {"summary", "error"}

\* C7: summarize_strategy without a document, or with one that has no text
\* once the markup is stripped, returns a single error and has started no
\* model call; with text it has started both calls and joined both, and
\* returns both entries, each the summary or the error string of its own
\* call, whatever became of the other one.
C7_SummarizeBothOrNone ==
    /\ op.name = "summarize" =>
          IF HasText(op.html)
          THEN /\ op.status = "ok"
               /\ op.calls = 2
               /\ Len(op.summary) = 2
               /\ OwnResult(op.summary[1], "gpt-oss")
               /\ OwnResult(op.summary[2], "kimi")
          ELSE /\ op.status = "error"
               /\ op.calls = 0
               /\ Len(op.summary) = 1
    /\ (summ.pc # "idle" /\ ~HasText(summ.html)) =>
          summ.gptoss.state = "none" /\ summ.kimi.state = "none"
    /\ summ.pc \in {"l285", "l286"} =>
          summ.gptoss.state # "none" /\ summ.kimi.state # "none"

\* a summarization returned the error string of the first call next to the
\* summary of the second
C7_Witness ==
    /\ op.name = "summarize" /\ HasText(op.html)
    /\ op.summary[1].kind = "error"
    /\ op.summary[2].kind = "summary"

\* C8: when the last call of load_models_config found the file missing,
\* unparseable or without a required field, the configuration in use is the
\* built-in default.
C8_FailedLoadFallsBack ==
    (op.name \in {"get_models", "load_models_config"} /\ op.found # "valid")
        => MODEL_CONFIG = DefaultConfig

(***************************************************************************)
(* A catalog of more titles than the enrichment tables hold, read by the   *)
(* query, the keyword summary and the strategy view while the documents    *)
(* change: SpecSort, for claims C12 and C14.                               *)
(***************************************************************************)
\* a document is written or deleted; no call of the program is involved
EditDoc(n, d) ==
    /\ html_files[n] # d
    /\ html_files' = [html_files EXCEPT ![n] = d]
    /\ UNCHANGED <<concVars, summVars, dirVars, cacheVars, memo, op>>

InitSort ==
    /\ dirExists = TRUE
    /\ mtime = 1
    /\ files = [f \in FileNames |->
                  IF f = F1 THEN JsonFile(BaseRec(TitleAB, 1))
                  ELSE IF f = F2 THEN JsonFile(BaseRec(TitleAmp, 2))
                  ELSE JsonFile(BaseRec(TitleB, 3))]
    /\ html_files = DocsInit
    /\ strategy_cache = CacheNone
    /\ last_load_time = 0
    /\ memo = EmptyMemo
    /\ op = OpNone
    /\ InitRest

SortRequests == {[NoRequest EXCEPT !.sort_by = sb] : sb \in SortFields}

Query == \E req \in SortRequests : get_strategies_endpoint(1, req)

\* the documents that are viewed, by their names, by a title and by the
\* name of a record file
SortDocs ==
    {<<"a", "_", "b">>, <<"a", "%", "2", "6">>, <<"a", " ", "b">>,
     <<"a", "_", "b", ".", "j", "s", "o", "n">>}

View ==
    \/ \E n \in SortDocs : view_strategy(1, n)
    \/ l209_exists(1)
    \/ l213_open(1)

\* a document without text
BlankDoc == Doc(TRUE, 0, FALSE, <<>>)

\* the document of the first title is written, emptied and deleted
DocEdit == \E n \in ChangingDocs, d \in DocContents \cup {BlankDoc} : EditDoc(n, d)

\* the directory can be removed while an operation runs
NextSort ==
    \/ Load \/ Query \/ get_keywords_summary(1)
    \/ get_keywords_summary_counts(1) \/ View \/ Step
    \/ DocEdit \/ RemoveDir

SpecSort == InitSort /\ [][NextSort]_vars

\* the strategies returned are those of the cache, each once
PermutationOfCache ==
    /\ Len(op.ret) = Len(strategy_cache.list)
    /\ \A st \in Cached : Returned(st)

\* C12: a query without criteria sorted by "date" returns the cached
\* strategies by non-increasing end_year, the attribute the loader attached
\* to each record, and those of equal end_year by non-increasing Sharpe
\* ratio, whatever loads and reloads and lookups went before.
C12_SortByDate ==
    (op.name = "query" /\ op.status = "ok" /\ op.req.sort_by = "date"
        /\ Only(op.req, "")) =>
       /\ PermutationOfCache
       /\ \A i, j \in 1..Len(op.ret) :
             i < j =>
                \/ op.ret[i].end_year > op.ret[j].end_year
                \/ /\ op.ret[i].end_year = op.ret[j].end_year
                   /\ SharpeOrZero(op.ret[i].rec) >= SharpeOrZero(op.ret[j].rec)

(***************************************************************************)
(* The order of the result: claim C13, under SpecQuery.                    *)
(***************************************************************************)
\* the strategies returned are in the order they have in the cache
InCacheOrder ==
    \A i, j \in 1..Len(op.ret) :
       i < j =>
          \E a, b \in 1..Len(strategy_cache.list) :
             /\ a < b
             /\ strategy_cache.list[a] = op.ret[i]
             /\ strategy_cache.list[b] = op.ret[j]

\* C13: for every set of records in the directory, the query without
\* criteria sorted by "sharpe" returns every cached strategy once, by
\* non-increasing Sharpe ratio, absent or null read as 0; with a sort field
\* that is not known the strategies kept are returned in the order of the
\* cache.
C13_SortBySharpe ==
    /\ (op.name = "query" /\ op.req.sort_by = "sharpe" /\ Only(op.req, "")
          /\ dirExists) =>
          /\ op.status = "ok"
          /\ PermutationOfCache
          /\ \A i, j \in 1..Len(op.ret) :
                i < j => SharpeOrZero(op.ret[i].rec) >= SharpeOrZero(op.ret[j].rec)
    /\ (op.name = "query" /\ op.req.sort_by = "name" /\ op.status = "ok") =>
          /\ InCacheOrder
          /\ Only(op.req, "") => PermutationOfCache

\* the same where the query returns a result
C13_SortBySharpeWhenAnswered ==
    (op.name = "query" /\ op.req.sort_by = "sharpe" /\ Only(op.req, "")
        /\ op.status = "ok") =>
          /\ PermutationOfCache
          /\ \A i, j \in 1..Len(op.ret) :
                i < j => SharpeOrZero(op.ret[i].rec) >= SharpeOrZero(op.ret[j].rec)

(***************************************************************************)
(* The cache under the reading operations: claim C14, under SpecSort.      *)
(***************************************************************************)
\* the cached sequence and the timestamp are written by lines 188 and 189
\* of load_strategies and by nothing else, and what these leave, when the
\* directory is not changed meanwhile, is a scan of the directory stamped
\* with its modification time
OnlyRebuilt ==
    /\ strategy_cache' # strategy_cache =>
          /\ thr[1].pc = "l188"
          /\ strategy_cache' = CacheOf(thr[1].strategies)
    /\ last_load_time' # last_load_time => thr[1].pc = "l189"
    /\ (thr[1].pc = "l189" /\ thr'[1].pc # "l189") =>
          /\ last_load_time' = thr[1].now
          /\ (dirExists /\ thr[1].quiet) =>
                (Rescanned(strategy_cache'.list) /\ last_load_time' = mtime)

\* the step ends a query that is the same as the call before it, and has
\* not rebuilt the cache; the directory is there
SameQueryAgain ==
    /\ thr[1].pc # "idle" /\ op'.name = "query"
    /\ thr[1].prev.same /\ ~thr[1].rebuilt /\ dirExists

\* C14: the query, the keyword summary and the strategy view write the
\* cached sequence and the timestamp only through the rebuild of
\* load_strategies, and the same query asked again without a rebuild in
\* between returns the same result.
C14_ReadsLeaveCache ==
    [][ /\ OnlyRebuilt
        /\ SameQueryAgain =>
              (op'.status = thr[1].prev.status /\ op'.ret = thr[1].prev.ret) ]_vars

\* the first half alone
C14_OnlyRebuiltByLoad == [][OnlyRebuilt]_vars

====
